---- MODULE Spec2Model ----
(***************************************************************************)
(* Model of pyot's MQTT session and routing layer (src/pyot/mqtt.py,       *)
(* class MQTTClient) and of the handler pipelines (src/pyot/handler.py).   *)
(*                                                                         *)
(* A topic or a topic filter is the sequence of its "/"-separated          *)
(* segments: "sensors/#" is <<"sensors", "#">>, the empty string is <<"">>.*)
(* A Python dict is the sequence of its <<key, value>> items in insertion  *)
(* order, which is the order dict iteration follows.                       *)
(***************************************************************************)
EXTENDS Integers, Sequences, FiniteSets, TLC

\* ------------------------------------------------------------------ bounds

\* Largest number of entries the subscription table holds in the model.
MaxTable == 2
\* Longest filter, in segments, of the matcher specification's first entry.
MaxSegs == 3
\* Longest filter, in segments, of the matcher specification's second entry.
MaxShortSegs == 2
\* Longest topic, in segments, of the matcher specification.
MaxTopicSegs == 2
\* Where the per-start() counters of transport calls stop counting.
CountCap == 3

\* ------------------------------------------------------- program constants

\* MQTTClient.__init__'s default for qos.
DefaultQos == 1

None == "None"
\* best_filter = None in _match_handler: no filter has matched yet.
NoFilter == <<>>

\* ---------------------------------------------------------- input alphabets

\* The filters and topics the session specification subscribes and delivers.
SessionFilters ==
    { <<"sensors", "#">>, <<"sensors", "temp">>, <<"">> }
SessionTopics == { <<"sensors", "temp">>, <<"sensors", "humidity">> }
Handlers == {"H1", "H2"}
\* subscribe's handler and qos arguments; qos is <<>> when omitted, <<q>> when given.
SubscribeArgs == { <<None, <<>>>>, <<"H1", <<0>>>>, <<"H2", <<>>>> }
\* The callbacks the constructor is given: none at all, or all three.
CallbackArgs == { <<None, None, None>>, <<"D", "C", "X">> }

\* The matcher specification's segments.
Literals == {"a", "abcd"}
Wildcards == {"+", "#"}
SeqsUpTo(S, n) == UNION { [1..k -> S] : k \in 1..n }

\* ------------------------------------------------------------ dict helpers

RECURSIVE DictIndex(_, _, _)
DictIndex(d, k, i) ==
    IF i > Len(d) THEN 0
    ELSE IF d[i][1] = k THEN i
    ELSE DictIndex(d, k, i + 1)

DictHas(d, k) == DictIndex(d, k, 1) # 0

\* d.get(k): the value, or None.
DictGet(d, k) ==
    IF DictHas(d, k) THEN d[DictIndex(d, k, 1)][2] ELSE None

\* Mutant of DictSet: every assignment adds an item.
DictSetAppend(d, k, v) == Append(d, <<k, v>>)

\* d[k] = v: a new key goes last, an old key keeps its place.
DictSet(d, k, v) ==
    IF DictHas(d, k)
    THEN [d EXCEPT ![DictIndex(d, k, 1)] = <<k, v>>]
    ELSE Append(d, <<k, v>>)

\* del d[k] / d.pop(k, None)
DictDel(d, k) ==
    IF DictHas(d, k)
    THEN LET i == DictIndex(d, k, 1)
         IN  SubSeq(d, 1, i - 1) \o SubSeq(d, i + 1, Len(d))
    ELSE d

DictKeys(d) == [i \in 1..Len(d) |-> d[i][1]]
DictKeySet(d) == { d[i][1] : i \in 1..Len(d) }

\* ------------------------------------------------------------- the matcher

\* Mutant of IsSysTopic: no topic is treated as a "$" topic.
IsSysTopicNever(topic) == FALSE

\* topic.startswith('$') in the transport's matcher.
IsSysTopic(topic) == topic[1] \in {"$SYS"}

\* paho's topic_matches_sub(sub, topic): the walk of MQTTMatcher.iter_match
\* over the one-filter trie, k segments of both having been consumed.
RECURSIVE MatchFrom(_, _, _)
MatchFrom(filt, topic, k) ==
    LET normal == ~IsSysTopic(topic)
        hasChild == k < Len(filt)
        child == filt[k + 1]
    IN  \/ /\ k = Len(topic)
           /\ k = Len(filt)
        \/ /\ k < Len(topic)
           /\ hasChild
           /\ child = topic[k + 1]
           /\ MatchFrom(filt, topic, k + 1)
        \/ /\ k < Len(topic)
           /\ hasChild
           /\ child = "+"
           /\ (normal \/ k > 0)
           /\ MatchFrom(filt, topic, k + 1)
        \/ /\ hasChild
           /\ child = "#"
           /\ (normal \/ k > 0)
           /\ k + 1 = Len(filt)

topic_matches_sub(filt, topic) == MatchFrom(filt, topic, 0)

\* sum(1 for part in filt.split("/") if part not in ("#", "+"))
RECURSIVE non_wildcards(_)
non_wildcards(filt) ==
    IF filt = <<>> THEN 0
    ELSE (IF Head(filt) \in {"#", "+"} THEN 0 ELSE 1) + non_wildcards(Tail(filt))

\* len(filt): the characters of the filter string, separators included.
RECURSIVE StrLen(_)
StrLen(filt) ==
    IF filt = <<>> THEN 0
    ELSE IF Len(filt) = 1 THEN Len(Head(filt))
    ELSE Len(Head(filt)) + 1 + StrLen(Tail(filt))

\* Mutant of Score: the second component counts segments, not characters.
ScoreBySegments(filt) == <<non_wildcards(filt), Len(filt)>>

\* score = (non_wildcards, len(filt))
Score(filt) == <<non_wildcards(filt), StrLen(filt)>>

\* Mutant of ScoreGt: score >= best_score, a later filter of equal score
\* replacing the best one.
ScoreGe(s, b) == s[1] > b[1] \/ (s[1] = b[1] /\ s[2] >= b[2])

\* Python's tuple comparison score > best_score.
ScoreGt(s, b) == s[1] > b[1] \/ (s[1] = b[1] /\ s[2] > b[2])

\* The loop of _match_handler from item i on: the best filter found.
RECURSIVE BestFilter(_, _, _, _, _)
BestFilter(rts, topic, i, best_filter, best_score) ==
    IF i > Len(rts) THEN best_filter
    ELSE LET filt == rts[i][1]
             score == Score(filt)
         IN  IF topic_matches_sub(filt, topic) /\ ScoreGt(score, best_score)
             THEN BestFilter(rts, topic, i + 1, filt, score)
             ELSE BestFilter(rts, topic, i + 1, best_filter, best_score)

best_filter_of(rts, topic) == BestFilter(rts, topic, 1, NoFilter, <<-1, -1>>)

\* Mutant of match_handler: the handler of the first filter that matches.
RECURSIVE FirstMatchHandler(_, _)
FirstMatchHandler(rts, topic) ==
    IF rts = <<>> THEN None
    ELSE IF topic_matches_sub(Head(rts)[1], topic) THEN Head(rts)[2]
    ELSE FirstMatchHandler(Tail(rts), topic)

\* MQTTClient._match_handler: the handler of the best filter, or None.
match_handler(rts, topic) ==
    LET best == best_filter_of(rts, topic)
    IN  IF best # NoFilter THEN DictGet(rts, best) ELSE None

\* ------------------------------------------------------------ the transport

\* What the transport accepts as a subscription filter: not the empty string,
\* and "#" only as the last segment.
ValidFilter(f) ==
    /\ f # <<"">>
    /\ \A i \in 1..Len(f) : f[i] = "#" => i = Len(f)

\* client.subscribe(filt, qos=q): a result code ("ok" is MQTT_ERR_SUCCESS,
\* "err" any other code), or a ValueError for a filter it rejects.
SubscribeOutcomes(f) == IF ValidFilter(f) THEN {"ok", "err"} ELSE {"raise"}

\* client.unsubscribe(filt): a result code, or a ValueError for the empty string.
UnsubscribeOutcomes(f) == IF f # <<"">> THEN {"ok", "err"} ELSE {"raise"}

\* client.connect(host, port, keepalive): returns, or raises (refused, unreachable).
ConnectOutcomes == {"ok", "raise"}

\* A user callback returns or raises.
CallbackOutcomes == {"ok", "raise"}

\* One transport call as the operations record it.
Call(op, f, q, res) == [op |-> op, filt |-> f, qos |-> q, res |-> res]
SubscribeCall(f, q, res) == Call("subscribe", f, q, res)
UnsubscribeCall(f, res) == Call("unsubscribe", f, -1, res)
PlainCall(op, res) == Call(op, NoFilter, -1, res)

\* One invocation of a user callable: which one, and the topic it is given.
Invocation(fn, topic) == [fn |-> fn, topic |-> topic]

\* One log record: level, message, the filter or topic it names.
LogRec(level, msg, arg) == <<level, msg, arg>>

\* ---------------------------------------------------------------- the state

VARIABLES
    routes,             \* self._routes: filter -> handler or None
    route_qos,          \* self._route_qos: filter -> qos
    loop_running,       \* self._loop_running
    lock,               \* owner of self._lock: "none", "caller", "delivery"
    user_on_message,    \* self._user_on_message
    user_on_connect,    \* self._user_on_connect
    user_on_disconnect, \* self._user_on_disconnect
    pcC,                \* the calling thread: "idle", or "stop_join" inside loop_stop()
    pcD,                \* the transport's delivery thread: "off", "idle", "conn",
                        \* "conn_cb", "msg", "msg_call", "dead"
    evt,                \* the event the delivery thread is processing
    lastOp,             \* the operation or event step taken last
    calls,              \* the transport calls of that operation, in order
    log,                \* what it logged
    invoked,            \* the user callables it invoked
    escaped,            \* where an exception it did not catch went
    epoch,              \* per start(): connect attempts, loop starts, connect seen
    mtopic,             \* matcher specification: the topic resolved last
    mresult,            \* matcher specification: the handler resolved for it
    config,             \* PushToServerHandler.config's flags
    memo,               \* the steps replaced by their constant-True lambda
    run,                \* the last pipeline run
    pend                \* the table update the calling thread is in the middle of

sessVars == <<routes, route_qos, loop_running, lock,
              user_on_message, user_on_connect, user_on_disconnect>>
threadVars == <<pcC, pcD, evt>>
obsVars == <<lastOp, calls, log, invoked, escaped, epoch>>
matchVars == <<mtopic, mresult>>
pipeVars == <<config, memo, run>>
vars == <<sessVars, threadVars, obsVars, matchVars, pipeVars, pend>>

NoEvt == [kind |-> "none", topic |-> <<>>, handler |-> None]
NoEpoch == [connects |-> 0, loop_starts |-> 0, connect_failed |-> FALSE]
NoRun == [handler |-> "none", steps |-> <<>>, called |-> <<>>, results |-> <<>>,
          bodies |-> <<>>, result |-> "none", log |-> <<>>]
\* PushToServerHandler.config before set_config: the attribute does not exist.
NoConfig == [set |-> FALSE, hoist |-> FALSE, centralize_logs |-> FALSE]
NoMemo == {}
\* The calling thread is not inside subscribe, unsubscribe or clear_subscriptions.
NoPend == [op |-> "none", filt |-> NoFilter, qos |-> -1]

\* What one step reports: the operation, its transport calls, its log, the
\* callables it invoked, and where an uncaught exception went.
Report(op, cs, lg, inv, esc) ==
    /\ lastOp' = op
    /\ calls' = cs
    /\ log' = lg
    /\ invoked' = inv
    /\ escaped' = esc

\* MQTTClient.__init__: empty table, loop not running, callbacks as given.
InitSession ==
    /\ routes = <<>>
    /\ route_qos = <<>>
    /\ loop_running = FALSE
    /\ lock = "none"
    /\ \E cb \in CallbackArgs :
         /\ user_on_message = cb[1]
         /\ user_on_connect = cb[2]
         /\ user_on_disconnect = cb[3]
    /\ pcC = "idle"
    /\ pcD = "off"
    /\ evt = NoEvt
    /\ lastOp = "init"
    /\ calls = <<>>
    /\ log = <<>>
    /\ invoked = <<>>
    /\ escaped = "none"
    /\ epoch = NoEpoch
    /\ pend = NoPend

IdleMatch == mtopic = <<>> /\ mresult = None
IdlePipeline == config = NoConfig /\ memo = NoMemo /\ run = NoRun

Init == InitSession /\ IdleMatch /\ IdlePipeline

\* ------------------------------------------------- operations of the caller

\* MQTTClient.subscribe(topic_filter, handler=h, qos=qarg).
Subscribe(f, h, qarg) ==
    /\ pcC = "idle"
    /\ lock = "none"
    /\ DictHas(routes, f) \/ Len(routes) < MaxTable
    /\ LET q == IF qarg = <<>> THEN DefaultQos ELSE qarg[1]
       IN  /\ routes' = DictSet(routes, f, h)
           /\ route_qos' = DictSet(route_qos, f, q)
           /\ IF loop_running
              THEN \E res \in SubscribeOutcomes(f) :
                     Report("subscribe",
                            <<SubscribeCall(f, q, res)>>,
                            IF res = "err"
                            THEN <<LogRec("error", "Failed to subscribe", f)>>
                            ELSE <<>>,
                            <<>>,
                            IF res = "raise" THEN "caller" ELSE "none")
              ELSE Report("subscribe", <<>>, <<>>, <<>>, "none")
    /\ UNCHANGED <<loop_running, lock, user_on_message, user_on_connect,
                   user_on_disconnect, threadVars, epoch, matchVars, pipeVars, pend>>

\* Mutant of Unsubscribe: only the handler entry is deleted.
UnsubscribeRoutesOnly(f) ==
    /\ pcC = "idle"
    /\ lock = "none"
    /\ routes' = DictDel(routes, f)
    /\ Report("unsubscribe", <<>>, <<>>, <<>>, "none")
    /\ UNCHANGED <<route_qos, loop_running, lock, user_on_message, user_on_connect,
                   user_on_disconnect, threadVars, epoch, matchVars, pipeVars, pend>>

\* MQTTClient.unsubscribe(topic_filter).
Unsubscribe(f) ==
    /\ pcC = "idle"
    /\ lock = "none"
    /\ IF DictHas(routes, f)
       THEN /\ routes' = DictDel(routes, f)
            /\ route_qos' = DictDel(route_qos, f)
            /\ IF loop_running
               THEN \E res \in UnsubscribeOutcomes(f) :
                      Report("unsubscribe",
                             <<UnsubscribeCall(f, res)>>,
                             IF res = "raise" THEN <<>>
                             ELSE <<LogRec("info", "MQTT unsubscribed from", f)>>,
                             <<>>,
                             IF res = "raise" THEN "caller" ELSE "none")
               ELSE Report("unsubscribe", <<>>, <<>>, <<>>, "none")
       ELSE /\ UNCHANGED <<routes, route_qos>>
            /\ Report("unsubscribe", <<>>, <<>>, <<>>, "none")
    /\ UNCHANGED <<loop_running, lock, user_on_message, user_on_connect,
                   user_on_disconnect, threadVars, epoch, matchVars, pipeVars, pend>>

\* The unsubscribe calls of clear_subscriptions' loop over the keys: each
\* call's result as the transport gives it, the loop ending at a call that raises.
RECURSIVE UnsubscribeAll(_, _, _)
UnsubscribeAll(keys, outs, i) ==
    IF i > Len(keys) THEN <<>>
    ELSE IF "raise" \in UnsubscribeOutcomes(keys[i])
    THEN <<UnsubscribeCall(keys[i], "raise")>>
    ELSE <<UnsubscribeCall(keys[i], outs[i])>> \o UnsubscribeAll(keys, outs, i + 1)

Raised(cs) == \E i \in 1..Len(cs) : cs[i].res = "raise"

\* MQTTClient.clear_subscriptions().
ClearSubscriptions ==
    /\ pcC = "idle"
    /\ lock = "none"
    /\ IF loop_running /\ routes # <<>>
       THEN \E outs \in [1..Len(routes) -> {"ok", "err"}] :
              LET cs == UnsubscribeAll(DictKeys(routes), outs, 1)
              IN  IF Raised(cs)
                  THEN /\ UNCHANGED <<routes, route_qos>>
                       /\ Report("clear", cs, <<>>, <<>>, "caller")
                  ELSE /\ routes' = <<>>
                       /\ route_qos' = <<>>
                       /\ Report("clear", cs, <<>>, <<>>, "none")
       ELSE /\ routes' = <<>>
            /\ route_qos' = <<>>
            /\ Report("clear", <<>>, <<>>, <<>>, "none")
    /\ UNCHANGED <<loop_running, lock, user_on_message, user_on_connect,
                   user_on_disconnect, threadVars, epoch, matchVars, pipeVars, pend>>

Bump(n) == IF n < CountCap THEN n + 1 ELSE n

\* Mutant of StartBody: no check of _loop_running.
StartBodyUnguarded ==
    \E res \in ConnectOutcomes :
      /\ Report("start",
                <<PlainCall("connect", res), PlainCall("loop_start", "ok")>>,
                <<>>, <<>>, "none")
      /\ loop_running' = TRUE
      /\ pcD' = IF pcD = "off" THEN "idle" ELSE pcD
      /\ epoch' = [connects |-> Bump(epoch.connects),
                   loop_starts |-> Bump(epoch.loop_starts),
                   connect_failed |-> (res = "raise")]

\* Mutant of StartBody: the flag is left for the connect event to set.
StartBodyStarting ==
    IF loop_running \/ pcD # "off"
    THEN /\ Report("start", <<>>, <<>>, <<>>, "none")
         /\ UNCHANGED <<loop_running, pcD, epoch>>
    ELSE \E res \in ConnectOutcomes :
           /\ Report("start",
                     <<PlainCall("connect", res), PlainCall("loop_start", "ok")>>,
                     <<>>, <<>>, "none")
           /\ loop_running' = FALSE
           /\ pcD' = "idle"
           /\ epoch' = [connects |-> Bump(epoch.connects),
                        loop_starts |-> Bump(epoch.loop_starts),
                        connect_failed |-> (res = "raise")]

\* The body of start() once the lock is held.
StartBody ==
    IF loop_running
    THEN /\ Report("start", <<>>, <<>>, <<>>, "none")
         /\ UNCHANGED <<loop_running, pcD, epoch>>
    ELSE \E res \in ConnectOutcomes :
           /\ Report("start",
                     <<PlainCall("connect", res), PlainCall("loop_start", "ok")>>,
                     IF res = "raise"
                     THEN <<LogRec("error", "MQTT initial connect failed", NoFilter)>>
                     ELSE <<>>,
                     <<>>, "none")
           /\ loop_running' = TRUE
           /\ pcD' = "idle"
           /\ epoch' = [connects |-> Bump(epoch.connects),
                        loop_starts |-> Bump(epoch.loop_starts),
                        connect_failed |-> (res = "raise")]

\* MQTTClient.start().
Start ==
    /\ pcC = "idle"
    /\ lock = "none"
    /\ StartBody
    /\ UNCHANGED <<routes, route_qos, lock, user_on_message, user_on_connect,
                   user_on_disconnect, pcC, evt, matchVars, pipeVars, pend>>

\* Mutant of StopCalls: the disconnect is issued before the loop is halted.
StopCallsDisconnectFirst == <<PlainCall("disconnect", "ok"), PlainCall("loop_stop", "ok")>>

\* The transport calls of stop(), in the order it issues them.
StopCalls == <<PlainCall("loop_stop", "ok"), PlainCall("disconnect", "ok")>>

\* MQTTClient.stop() up to loop_stop(), which joins the delivery thread while
\* the lock is held; on a stopped session the whole call.
StopBegin ==
    /\ pcC = "idle"
    /\ lock = "none"
    /\ IF ~loop_running
       THEN /\ Report("stop", <<>>, <<>>, <<>>, "none")
            /\ UNCHANGED <<lock, pcC>>
       ELSE /\ Report("stop_begin", <<StopCalls[1]>>, <<>>, <<>>, "none")
            /\ lock' = "caller"
            /\ pcC' = "stop_join"
    /\ UNCHANGED <<routes, route_qos, loop_running, user_on_message,
                   user_on_connect, user_on_disconnect, pcD, evt, epoch,
                   matchVars, pipeVars, pend>>

\* The delivery thread has returned from its callback and ended: loop_stop()
\* returns, stop() disconnects, clears the flag and releases the lock.
StopFinish ==
    /\ pcC = "stop_join"
    /\ pcD \in {"idle", "dead"}
    /\ Report("stop", StopCalls,
              <<LogRec("info", "MQTT disconnected.", NoFilter)>>, <<>>, "none")
    /\ loop_running' = FALSE
    /\ lock' = "none"
    /\ pcC' = "idle"
    /\ pcD' = "off"
    /\ epoch' = [epoch EXCEPT !.connects = 0, !.loop_starts = 0]
    /\ UNCHANGED <<routes, route_qos, user_on_message, user_on_connect,
                   user_on_disconnect, evt, matchVars, pipeVars, pend>>

\* publish's arguments: topic, payload, qos and retain; qos is <<>> when
\* omitted, <<q>> when given, retain likewise.
PublishArgs ==
    { <<<<"sensors", "temp">>, "p1", <<>>, <<>>>>,
      <<<<"sensors", "humidity">>, "p2", <<0>>, <<TRUE>>>> }

\* client.publish(topic, payload=..., qos=..., retain=...): the message info
\* it returns carries a success code or an error code.
PublishOutcomes == {"ok", "err"}

\* One transport publish call as publish records it.
PublishCall(t, p, q, r, res) ==
    [op |-> "publish", filt |-> t, qos |-> q, res |-> res, payload |-> p, retain |-> r]

\* Mutant of PublishQos: `qos or self.qos`, a given qos of 0 taken as omitted.
PublishQosFalsy(qarg) == IF qarg = <<>> \/ qarg[1] = 0 THEN DefaultQos ELSE qarg[1]

\* q = self.qos if qos is None else qos
PublishQos(qarg) == IF qarg = <<>> THEN DefaultQos ELSE qarg[1]

\* retain: bool = False
PublishRetain(rarg) == IF rarg = <<>> THEN FALSE ELSE rarg[1]

\* MQTTClient.publish(topic, payload, qos, retain): no lock is taken.
Publish(t, p, qarg, rarg) ==
    /\ pcC = "idle"
    /\ \E res \in PublishOutcomes :
         Report("publish",
                <<PublishCall(t, p, PublishQos(qarg), PublishRetain(rarg), res)>>,
                <<LogRec("debug", "MQTT publish", t)>>,
                <<>>, "none")
    /\ UNCHANGED <<sessVars, threadVars, epoch, matchVars, pipeVars, pend>>

\* ------------------------------------------- events of the delivery thread

\* The transport delivers events one at a time, while its loop thread runs and
\* has not been told to end.
CanDeliver == pcD = "idle" /\ pcC = "idle"

\* The subscribe calls of _on_connect's loop over route_qos.items(): each
\* call's result as the transport gives it, the loop ending at a call that raises.
RECURSIVE ReplayCalls(_, _, _)
ReplayCalls(rq, outs, i) ==
    IF i > Len(rq) THEN <<>>
    ELSE IF "raise" \in SubscribeOutcomes(rq[i][1])
    THEN <<SubscribeCall(rq[i][1], rq[i][2], "raise")>>
    ELSE <<SubscribeCall(rq[i][1], rq[i][2], outs[i])>> \o ReplayCalls(rq, outs, i + 1)

\* The error records _on_connect logs for the calls that returned an error code.
RECURSIVE ReplayLog(_)
ReplayLog(cs) ==
    IF cs = <<>> THEN <<>>
    ELSE (IF Head(cs).res = "err"
          THEN <<LogRec("error", "Failed to subscribe", Head(cs).filt)>>
          ELSE <<>>) \o ReplayLog(Tail(cs))

\* Mutant of ConnBegin: a failed connect returns after its warning, without
\* the user callback.
ConnBeginFailureReturns(rc) ==
    /\ CanDeliver
    /\ IF rc = 0
       THEN /\ pcD' = "conn"
            /\ evt' = [NoEvt EXCEPT !.kind = "connect"]
            /\ Report("connect_begin", <<>>,
                      <<LogRec("info", "MQTT connected.", NoFilter)>>, <<>>, "none")
       ELSE /\ pcD' = "idle"
            /\ evt' = NoEvt
            /\ Report("connect_begin", <<>>,
                      <<LogRec("warning", "MQTT connect returned non-zero result", NoFilter)>>,
                      <<>>, "none")
    /\ UNCHANGED <<sessVars, pcC, epoch, matchVars, pipeVars, pend>>

\* _on_connect is entered with reason code rc: a success goes on to take the
\* lock, a failure logs a warning and goes on to the user callback.
ConnBegin(rc) ==
    /\ CanDeliver
    /\ evt' = [NoEvt EXCEPT !.kind = "connect"]
    /\ IF rc = 0
       THEN /\ pcD' = "conn"
            /\ Report("connect_begin", <<>>,
                      <<LogRec("info", "MQTT connected.", NoFilter)>>, <<>>, "none")
       ELSE /\ pcD' = "conn_cb"
            /\ Report("connect_begin", <<>>,
                      <<LogRec("warning", "MQTT connect returned non-zero result", NoFilter)>>,
                      <<>>, "none")
    /\ UNCHANGED <<sessVars, pcC, epoch, matchVars, pipeVars, pend>>

\* _on_connect's replay under the lock. A ValueError of the transport leaves
\* _on_connect uncaught and ends the delivery thread.
ConnReplay ==
    /\ pcD = "conn"
    /\ lock = "none"
    /\ \E outs \in [1..Len(route_qos) -> {"ok", "err"}] :
         LET cs == ReplayCalls(route_qos, outs, 1)
         IN  IF Raised(cs)
             THEN /\ pcD' = "dead"
                  /\ evt' = NoEvt
                  /\ Report("connect_replay", cs, ReplayLog(cs), <<>>, "delivery")
             ELSE /\ pcD' = "conn_cb"
                  /\ evt' = evt
                  /\ Report("connect_replay", cs, ReplayLog(cs), <<>>, "none")
    /\ UNCHANGED <<sessVars, pcC, epoch, matchVars, pipeVars, pend>>

\* The end of _on_connect: the user connect callback, its exception caught.
ConnCallback ==
    /\ pcD = "conn_cb"
    /\ IF user_on_connect # None
       THEN \E res \in CallbackOutcomes :
              Report("connect_callback", <<>>,
                     IF res = "raise"
                     THEN <<LogRec("error", "Error in user on_connect handler", NoFilter)>>
                     ELSE <<>>,
                     <<Invocation(user_on_connect, NoFilter)>>, "none")
       ELSE Report("connect_callback", <<>>, <<>>, <<>>, "none")
    /\ pcD' = "idle"
    /\ evt' = NoEvt
    /\ UNCHANGED <<sessVars, pcC, epoch, matchVars, pipeVars, pend>>

\* Mutant of Disconnect: an unexpected disconnect marks the session stopped.
DisconnectStops(rc) ==
    /\ CanDeliver
    /\ \E res \in CallbackOutcomes :
         Report("disconnect", <<>>,
                <<IF rc # 0
                  THEN LogRec("warning", "MQTT unexpectedly disconnected", NoFilter)
                  ELSE LogRec("info", "MQTT cleanly disconnected.", NoFilter)>>,
                IF user_on_disconnect # None
                THEN <<Invocation(user_on_disconnect, NoFilter)>> ELSE <<>>,
                "none")
    /\ loop_running' = (rc = 0)
    /\ UNCHANGED <<routes, route_qos, lock, user_on_message, user_on_connect,
                   user_on_disconnect, threadVars, epoch, matchVars, pipeVars, pend>>

\* _on_disconnect(reason_code).
Disconnect(rc) ==
    /\ CanDeliver
    /\ \E res \in CallbackOutcomes :
         Report("disconnect", <<>>,
                <<IF rc # 0
                  THEN LogRec("warning", "MQTT unexpectedly disconnected", NoFilter)
                  ELSE LogRec("info", "MQTT cleanly disconnected.", NoFilter)>>
                \o (IF user_on_disconnect # None /\ res = "raise"
                    THEN <<LogRec("error", "Error in user on_disconnect handler", NoFilter)>>
                    ELSE <<>>),
                IF user_on_disconnect # None
                THEN <<Invocation(user_on_disconnect, NoFilter)>> ELSE <<>>,
                "none")
    /\ UNCHANGED <<sessVars, threadVars, epoch, matchVars, pipeVars, pend>>

\* _on_message is entered for a message on topic t and calls _match_handler.
MsgBegin(t) ==
    /\ CanDeliver
    /\ pcD' = "msg"
    /\ evt' = [NoEvt EXCEPT !.kind = "message", !.topic = t]
    /\ Report("message_begin", <<>>, <<>>, <<>>, "none")
    /\ UNCHANGED <<sessVars, pcC, epoch, matchVars, pipeVars, pend>>

\* Mutant of MsgResolve: _match_handler reads the table without the lock.
MsgResolveUnlocked ==
    /\ pcD = "msg"
    /\ pcD' = "msg_call"
    /\ evt' = [evt EXCEPT !.handler = match_handler(routes, evt.topic)]
    /\ Report("message_resolve", <<>>, <<>>, <<>>, "none")
    /\ UNCHANGED <<sessVars, pcC, epoch, matchVars, pipeVars, pend>>

\* Mutant of MsgResolve: the lock taken for _match_handler is kept for the
\* call of the handler.
MsgResolveKeepsLock ==
    /\ pcD = "msg"
    /\ lock = "none"
    /\ lock' = "delivery"
    /\ pcD' = "msg_call"
    /\ evt' = [evt EXCEPT !.handler = match_handler(routes, evt.topic)]
    /\ Report("message_resolve", <<>>, <<>>, <<>>, "none")
    /\ UNCHANGED <<routes, route_qos, loop_running, user_on_message, user_on_connect,
                   user_on_disconnect, pcC, epoch, matchVars, pipeVars, pend>>

\* _match_handler under the lock.
MsgResolve ==
    /\ pcD = "msg"
    /\ lock = "none"
    /\ pcD' = "msg_call"
    /\ evt' = [evt EXCEPT !.handler = match_handler(routes, evt.topic)]
    /\ Report("message_resolve", <<>>, <<>>, <<>>, "none")
    /\ UNCHANGED <<sessVars, pcC, epoch, matchVars, pipeVars, pend>>

\* Mutant of HandlerToCall: no fallback to the default handler.
HandlerToCallNoFallback(resolved, default) == resolved

\* The handler _on_message goes on with: the resolved one, else the default.
HandlerToCall(resolved, default) == IF resolved = None THEN default ELSE resolved

\* Mutant of MsgCall: the handler's exception is not caught and ends the
\* delivery thread.
MsgCallUncaught ==
    /\ pcD = "msg_call"
    /\ LET handler == IF evt.handler = None THEN user_on_message ELSE evt.handler
       IN  IF handler # None
           THEN \E res \in CallbackOutcomes :
                  /\ Report("message_call", <<>>, <<>>,
                            <<Invocation(handler, evt.topic)>>,
                            IF res = "raise" THEN "delivery" ELSE "none")
                  /\ pcD' = IF res = "raise" THEN "dead" ELSE "idle"
           ELSE /\ Report("message_call", <<>>, <<>>, <<>>, "none")
                /\ pcD' = "idle"
    /\ evt' = NoEvt
    /\ UNCHANGED <<sessVars, pcC, epoch, matchVars, pipeVars, pend>>

\* The rest of _on_message: the handler is invoked, its exception caught.
MsgCall ==
    /\ pcD = "msg_call"
    /\ LET handler == HandlerToCall(evt.handler, user_on_message)
       IN  IF handler # None
           THEN \E res \in CallbackOutcomes :
                  Report("message_call", <<>>,
                         IF res = "raise"
                         THEN <<LogRec("error", "Error in message handler for topic", evt.topic)>>
                         ELSE <<>>,
                         <<Invocation(handler, evt.topic)>>, "none")
           ELSE Report("message_call", <<>>, <<>>, <<>>, "none")
    /\ pcD' = "idle"
    /\ evt' = NoEvt
    /\ UNCHANGED <<sessVars, pcC, epoch, matchVars, pipeVars, pend>>

\* ------------------------------------------------ the session specification

Next ==
    \/ \E f \in SessionFilters, a \in SubscribeArgs : Subscribe(f, a[1], a[2])
    \/ \E f \in SessionFilters : Unsubscribe(f)
    \/ ClearSubscriptions
    \/ Start
    \/ StopBegin
    \/ StopFinish
    \/ \E a \in PublishArgs : Publish(a[1], a[2], a[3], a[4])
    \/ \E rc \in {0, 5} : ConnBegin(rc)
    \/ ConnReplay
    \/ ConnCallback
    \/ \E rc \in {0, 7} : Disconnect(rc)
    \/ \E t \in SessionTopics : MsgBegin(t)
    \/ MsgResolve
    \/ MsgCall

Spec == Init /\ [][Next]_vars

\* ------------------- the session at the grain of the statements under the lock

\* subscribe() takes the lock and stores the handler: self._routes[f] = handler.
SubscribeStore(f, h, qarg) ==
    /\ pcC = "idle"
    /\ lock = "none"
    /\ DictHas(routes, f) \/ Len(routes) < MaxTable
    /\ lock' = "caller"
    /\ pcC' = "subscribe"
    /\ routes' = DictSet(routes, f, h)
    /\ pend' = [op |-> "subscribe", filt |-> f,
                qos |-> IF qarg = <<>> THEN DefaultQos ELSE qarg[1]]
    /\ Report("subscribe_store", <<>>, <<>>, <<>>, "none")
    /\ UNCHANGED <<route_qos, loop_running, user_on_message, user_on_connect,
                   user_on_disconnect, pcD, evt, epoch, matchVars, pipeVars>>

\* The rest of subscribe(): the qos is stored, a running session subscribes
\* at the transport, and the lock is released.
SubscribeFinish ==
    /\ pcC = "subscribe"
    /\ route_qos' = DictSet(route_qos, pend.filt, pend.qos)
    /\ IF loop_running
       THEN \E res \in SubscribeOutcomes(pend.filt) :
              Report("subscribe",
                     <<SubscribeCall(pend.filt, pend.qos, res)>>,
                     IF res = "err"
                     THEN <<LogRec("error", "Failed to subscribe", pend.filt)>>
                     ELSE <<>>,
                     <<>>,
                     IF res = "raise" THEN "caller" ELSE "none")
       ELSE Report("subscribe", <<>>, <<>>, <<>>, "none")
    /\ lock' = "none"
    /\ pcC' = "idle"
    /\ pend' = NoPend
    /\ UNCHANGED <<routes, loop_running, user_on_message, user_on_connect,
                   user_on_disconnect, pcD, evt, epoch, matchVars, pipeVars>>

\* unsubscribe() takes the lock and, for a filter of the table, deletes its
\* handler: del self._routes[f]; for any other filter it is the whole call.
UnsubscribeDelete(f) ==
    /\ pcC = "idle"
    /\ lock = "none"
    /\ IF DictHas(routes, f)
       THEN /\ routes' = DictDel(routes, f)
            /\ lock' = "caller"
            /\ pcC' = "unsubscribe"
            /\ pend' = [op |-> "unsubscribe", filt |-> f, qos |-> -1]
            /\ Report("unsubscribe_delete", <<>>, <<>>, <<>>, "none")
       ELSE /\ UNCHANGED <<routes, lock, pcC, pend>>
            /\ Report("unsubscribe", <<>>, <<>>, <<>>, "none")
    /\ UNCHANGED <<route_qos, loop_running, user_on_message, user_on_connect,
                   user_on_disconnect, pcD, evt, epoch, matchVars, pipeVars>>

\* The rest of unsubscribe(): the qos is popped, a running session
\* unsubscribes at the transport, and the lock is released.
UnsubscribeFinish ==
    /\ pcC = "unsubscribe"
    /\ route_qos' = DictDel(route_qos, pend.filt)
    /\ IF loop_running
       THEN \E res \in UnsubscribeOutcomes(pend.filt) :
              Report("unsubscribe",
                     <<UnsubscribeCall(pend.filt, res)>>,
                     IF res = "raise" THEN <<>>
                     ELSE <<LogRec("info", "MQTT unsubscribed from", pend.filt)>>,
                     <<>>,
                     IF res = "raise" THEN "caller" ELSE "none")
       ELSE Report("unsubscribe", <<>>, <<>>, <<>>, "none")
    /\ lock' = "none"
    /\ pcC' = "idle"
    /\ pend' = NoPend
    /\ UNCHANGED <<routes, loop_running, user_on_message, user_on_connect,
                   user_on_disconnect, pcD, evt, epoch, matchVars, pipeVars>>

\* clear_subscriptions() takes the lock, unsubscribes the filters of a running
\* session and clears the handlers: self._routes.clear(). A transport call
\* that raises ends the call there, the lock released.
ClearRoutes ==
    /\ pcC = "idle"
    /\ lock = "none"
    /\ \E outs \in [1..Len(routes) -> {"ok", "err"}] :
         LET cs == IF loop_running /\ routes # <<>>
                   THEN UnsubscribeAll(DictKeys(routes), outs, 1) ELSE <<>>
         IN  IF Raised(cs)
             THEN /\ UNCHANGED <<routes, lock, pcC, pend>>
                  /\ Report("clear", cs, <<>>, <<>>, "caller")
             ELSE /\ routes' = <<>>
                  /\ lock' = "caller"
                  /\ pcC' = "clear"
                  /\ pend' = [op |-> "clear", filt |-> NoFilter, qos |-> -1]
                  /\ Report("clear_routes", cs, <<>>, <<>>, "none")
    /\ UNCHANGED <<route_qos, loop_running, user_on_message, user_on_connect,
                   user_on_disconnect, pcD, evt, epoch, matchVars, pipeVars>>

\* The rest of clear_subscriptions(): self._route_qos.clear(), lock released.
ClearQos ==
    /\ pcC = "clear"
    /\ route_qos' = <<>>
    /\ Report("clear", <<>>, <<>>, <<>>, "none")
    /\ lock' = "none"
    /\ pcC' = "idle"
    /\ pend' = NoPend
    /\ UNCHANGED <<routes, loop_running, user_on_message, user_on_connect,
                   user_on_disconnect, pcD, evt, epoch, matchVars, pipeVars>>

NextLock ==
    \/ \E f \in SessionFilters, a \in SubscribeArgs : SubscribeStore(f, a[1], a[2])
    \/ SubscribeFinish
    \/ \E f \in SessionFilters : UnsubscribeDelete(f)
    \/ UnsubscribeFinish
    \/ ClearRoutes
    \/ ClearQos
    \/ Start
    \/ \E rc \in {0, 5} : ConnBegin(rc)
    \/ ConnReplay
    \/ ConnCallback
    \/ \E t \in SessionTopics : MsgBegin(t)
    \/ MsgResolve
    \/ MsgCall

SpecLock == Init /\ [][NextLock]_vars

\* ------------------------------------------------ the matcher specification

MatchFilters(n) == SeqsUpTo(Literals \cup Wildcards, n)
\* The segments of the topics resolved: the literals, and "$SYS", which makes
\* a topic that starts with "$" when it comes first.
TopicSegments == Literals \cup {"$SYS"}
MatchTopics == SeqsUpTo(TopicSegments, MaxTopicSegs)

\* A stopped session after subscribe(f1, handler=H1) and, in the two-entry
\* tables, subscribe(f2, handler=H2).
InitMatch ==
    /\ \E f1 \in MatchFilters(MaxSegs), f2 \in MatchFilters(MaxShortSegs) \cup {NoFilter} :
         /\ f1 # f2
         /\ routes = IF f2 = NoFilter THEN <<<<f1, "H1">>>>
                     ELSE <<<<f1, "H1">>, <<f2, "H2">>>>
         /\ route_qos = [i \in 1..Len(routes) |-> <<routes[i][1], DefaultQos>>]
    /\ loop_running = FALSE
    /\ lock = "none"
    /\ user_on_message = None
    /\ user_on_connect = None
    /\ user_on_disconnect = None
    /\ pcC = "idle"
    /\ pcD = "off"
    /\ evt = NoEvt
    /\ lastOp = "init"
    /\ calls = <<>>
    /\ log = <<>>
    /\ invoked = <<>>
    /\ escaped = "none"
    /\ epoch = NoEpoch
    /\ pend = NoPend
    /\ IdleMatch
    /\ IdlePipeline

\* _match_handler(topic) on the table, once per table.
Resolve(t) ==
    /\ mtopic = <<>>
    /\ mtopic' = t
    /\ mresult' = match_handler(routes, t)
    /\ UNCHANGED <<sessVars, threadVars, obsVars, pipeVars, pend>>

\* The entries whose filter has the same score as another entry's filter.
TiedEntries ==
    { i \in 1..Len(routes) :
        \E j \in 1..Len(routes) : j # i /\ Score(routes[j][1]) = Score(routes[i][1]) }

\* subscribe() of a filter that is in the table already, with the handler it
\* has, before any topic is resolved; the calls explored are those for the
\* filters of equal score.
Resubscribe(i) ==
    /\ mtopic = <<>>
    /\ Subscribe(routes[i][1], routes[i][2], <<>>)

NextMatch ==
    \/ \E t \in MatchTopics : Resolve(t)
    \/ \E i \in TiedEntries : Resubscribe(i)

SpecMatch == InitMatch /\ [][NextMatch]_vars

\* ----------------------------------------------------- the handler pipelines

\* The steps whose body, once it has succeeded, rebinds the step to a lambda
\* returning True.
MemoSteps == {"_create_data_directory", "_create_log_directory", "_create_local_folder"}

\* The steps that read the configuration and build their command before
\* their try block: an exception there leaves the step.
UnguardedSteps == {"_create_data_directory", "_push_to_server",
                   "_create_log_directory", "_copy_logs"}

StepNames == {"_create_data_directory", "_aggregate_hoist_data", "_push_to_server",
              "_create_log_directory", "_copy_logs",
              "_create_local_folder", "_write_recipe_file"}

\* What the body of a step does: returns True, catches an exception and
\* returns False, or raises.
BodyOutcomes(step) ==
    {"ok", "fail"} \cup (IF step \in UnguardedSteps THEN {"raise"} ELSE {})

\* Mutant of PushSteps: one fixed list of all the steps, whatever the
\* configuration says.
PushStepsAll(cfg) ==
    <<"_create_data_directory", "_aggregate_hoist_data", "_push_to_server",
      "_create_log_directory", "_copy_logs">>

\* The step list PushToServerHandler.handle builds from cls.config.
PushSteps(cfg) ==
    <<"_create_data_directory">>
    \o (IF cfg.hoist THEN <<"_aggregate_hoist_data">> ELSE <<>>)
    \o <<"_push_to_server">>
    \o (IF cfg.centralize_logs THEN <<"_create_log_directory", "_copy_logs">> ELSE <<>>)

\* The step tuple of AuthRecipeHandler.handle.
AuthSteps == <<"_create_local_folder", "_write_recipe_file">>

\* Mutant of StepResult: the step's body runs at every call.
StepResultNoMemo(step, m, outs) == outs[step]

\* One call f() of a step: a memoized step is the lambda and returns True
\* without its body; otherwise the body runs with outcome outs[step].
StepResult(step, m, outs) == IF step \in m THEN "ok" ELSE outs[step]

\* Mutant of AllSteps: all([f() for f in steps]), every step called before
\* all() looks at the results.
RECURSIVE AllStepsEager(_, _, _, _)
AllStepsEager(steps, outs, m, i) ==
    IF i > Len(steps)
    THEN [called |-> <<>>, results |-> <<>>, bodies |-> <<>>, memo |-> m, result |-> "ok"]
    ELSE LET step == steps[i]
             res == StepResult(step, m, outs)
             m2 == IF res = "ok" /\ step \in MemoSteps THEN m \cup {step} ELSE m
             rest == AllStepsEager(steps, outs, m2, i + 1)
         IN  [called |-> <<step>> \o rest.called,
              results |-> <<res>> \o rest.results,
              bodies |-> (IF step \in m THEN <<>> ELSE <<step>>) \o rest.bodies,
              memo |-> rest.memo,
              result |-> IF res = "ok" THEN rest.result
                         ELSE IF res = "fail" THEN "failed" ELSE "raised"]

\* all(f() for f in steps) from step i on, m being the steps memoized so far:
\* the generator calls the steps in order and all() stops at the first False.
RECURSIVE AllSteps(_, _, _, _)
AllSteps(steps, outs, m, i) ==
    IF i > Len(steps)
    THEN [called |-> <<>>, results |-> <<>>, bodies |-> <<>>, memo |-> m, result |-> "ok"]
    ELSE LET step == steps[i]
             res == StepResult(step, m, outs)
             ran == IF step \in m THEN <<>> ELSE <<step>>
             m2 == IF res = "ok" /\ step \in MemoSteps THEN m \cup {step} ELSE m
             rest == IF res = "ok"
                     THEN AllSteps(steps, outs, m2, i + 1)
                     ELSE [called |-> <<>>, results |-> <<>>, bodies |-> <<>>, memo |-> m2,
                           result |-> IF res = "fail" THEN "failed" ELSE "raised"]
         IN  [called |-> <<step>> \o rest.called,
              results |-> <<res>> \o rest.results,
              bodies |-> ran \o rest.bodies,
              memo |-> rest.memo,
              result |-> rest.result]

\* What handle logs once all() has returned.
AggregateLog(name, result) ==
    IF result = "ok" THEN <<LogRec("debug", "all handlers successful", name)>>
    ELSE IF result = "failed" THEN <<LogRec("warning", "handler failed", name)>>
    ELSE <<>>

\* One run of a handler's handle() over its step list.
RunHandler(name, steps) ==
    \E outs \in [{ steps[i] : i \in 1..Len(steps) } -> {"ok", "fail", "raise"}] :
      /\ \A st \in DOMAIN outs : outs[st] \in BodyOutcomes(st)
      /\ LET r == AllSteps(steps, outs, memo, 1)
         IN  /\ memo' = r.memo
             /\ run' = [handler |-> name, steps |-> steps, called |-> r.called,
                        results |-> r.results, bodies |-> r.bodies,
                        result |-> r.result, log |-> AggregateLog(name, r.result)]

\* Mutant of SetConfig: a new configuration restores the bodies of the
\* memoized steps.
SetConfigResets(hoist, logs) ==
    /\ config' = [set |-> TRUE, hoist |-> hoist, centralize_logs |-> logs]
    /\ memo' = NoMemo
    /\ UNCHANGED <<run, sessVars, threadVars, obsVars, matchVars, pend>>

\* PushToServerHandler.set_config(config).
SetConfig(hoist, logs) ==
    /\ config' = [set |-> TRUE, hoist |-> hoist, centralize_logs |-> logs]
    /\ UNCHANGED <<memo, run, sessVars, threadVars, obsVars, matchVars, pend>>

\* PushToServerHandler.handle(topic, payload). Without a configuration the
\* read of cls.config raises before any step is called.
HandlePush ==
    /\ IF config.set
       THEN RunHandler("PushToServerHandler", PushSteps(config))
       ELSE /\ run' = [NoRun EXCEPT !.handler = "PushToServerHandler",
                                    !.steps = <<"_create_data_directory">>,
                                    !.result = "raised"]
            /\ memo' = memo
    /\ UNCHANGED <<config, sessVars, threadVars, obsVars, matchVars, pend>>

\* AuthRecipeHandler.handle(topic, payload).
HandleAuth ==
    /\ RunHandler("AuthRecipeHandler", AuthSteps)
    /\ UNCHANGED <<config, sessVars, threadVars, obsVars, matchVars, pend>>

NextPipeline ==
    \/ \E hoist \in BOOLEAN, logs \in BOOLEAN : SetConfig(hoist, logs)
    \/ HandlePush
    \/ HandleAuth

SpecPipeline == Init /\ [][NextPipeline]_vars

\* ------------------------------------------------------------------ claims

F_all == <<"sensors", "#">>
F_temp == <<"sensors", "temp">>
T_temp == <<"sensors", "temp">>
T_humidity == <<"sensors", "humidity">>

\* The table entries whose filter matches a topic.
Matching(rts, t) == { i \in 1..Len(rts) : topic_matches_sub(rts[i][1], t) }

\* Right after _match_handler has resolved a topic, the handler it returns is
\* the one registered for a matching filter that no other matching filter
\* outscores (None when nothing matches); for the table of the scenario it is
\* H2 for sensors/temp and H1 for sensors/humidity.
C1_Resolved ==
    lastOp = "message_resolve" =>
      LET M == Matching(routes, evt.topic)
      IN  /\ M = {} => evt.handler = None
          /\ M # {} =>
               \E i \in M :
                 /\ \A j \in M : ~ScoreGt(Score(routes[j][1]), Score(routes[i][1]))
                 /\ evt.handler = routes[i][2]
          /\ (DictGet(routes, F_all) = "H1" /\ DictGet(routes, F_temp) = "H2") =>
               /\ evt.topic = T_temp => evt.handler = "H2"
               /\ evt.topic = T_humidity => evt.handler = "H1"

\* The step that ends _on_message invokes at most one callable, with the
\* message's topic: the resolved handler, or the default one when the resolved
\* handler is None.
C1_Invoked ==
    (pcD = "msg_call" /\ pcD' = "idle") =>
      /\ Len(invoked') <= 1
      /\ evt.handler # None => invoked' = <<Invocation(evt.handler, evt.topic)>>
      /\ \A k \in 1..Len(invoked') :
           /\ invoked'[k].topic = evt.topic
           /\ invoked'[k].fn = (IF evt.handler # None THEN evt.handler ELSE user_on_message)

\* C1: on a message event at most one handler is invoked, the handler of the
\* highest-scoring table filter that matches the topic, and no handler of
\* another matching filter (sensors/# -> H1, sensors/temp -> H2: a message on
\* sensors/temp invokes H2 only, one on sensors/humidity invokes H1).
C1_MostSpecificHandler == []C1_Resolved /\ [][C1_Invoked]_vars

\* C1's case: with both filters of the scenario in the table, a message on
\* sensors/temp has been delivered and H2, alone, was invoked.
C1_Witness ==
    /\ lastOp = "message_call"
    /\ DictGet(routes, F_all) = "H1"
    /\ DictGet(routes, F_temp) = "H2"
    /\ invoked = <<Invocation("H2", T_temp)>>

\* The literal segments of a filter, counted without the code's loop.
LiteralCount(f) == Cardinality({ i \in 1..Len(f) : f[i] \notin {"+", "#"} })

\* The characters of the filter string: its segments' characters and the
\* separators between them.
RECURSIVE SumChars(_, _)
SumChars(f, i) == IF i = 0 THEN 0 ELSE Len(f[i]) + SumChars(f, i - 1)
CharCount(f) == SumChars(f, Len(f)) + (Len(f) - 1)

\* The table of the matcher specification holds two filters and both match
\* the topic resolved.
TwoMatch ==
    /\ mtopic # <<>>
    /\ Len(routes) = 2
    /\ Matching(routes, mtopic) = {1, 2}

\* f outscores g when the score's second component is `size`.
Outscores(f, g, size(_)) ==
    \/ LiteralCount(f) > LiteralCount(g)
    \/ LiteralCount(f) = LiteralCount(g) /\ size(f) > size(g)

SegmentCount(f) == Len(f)

\* C2 as stated: of two filters that match the topic, the one with more
\* literal segments is chosen and, at equal literal counts, the one with more
\* segments.
C2_SegmentCountScore ==
    TwoMatch =>
      /\ Outscores(routes[1][1], routes[2][1], SegmentCount) => mresult = routes[1][2]
      /\ Outscores(routes[2][1], routes[1][1], SegmentCount) => mresult = routes[2][2]

\* C2 amended: of two filters that match the topic, the one with more literal
\* segments is chosen and, at equal literal counts, the one whose filter string
\* has more characters.
C2_CharLengthScore ==
    TwoMatch =>
      /\ Outscores(routes[1][1], routes[2][1], CharCount) => mresult = routes[1][2]
      /\ Outscores(routes[2][1], routes[1][1], CharCount) => mresult = routes[2][2]

\* C2's case: two matching filters with equal literal counts where the one
\* with fewer segments has more characters, and is the one chosen.
C2_Witness ==
    /\ TwoMatch
    /\ LiteralCount(routes[1][1]) = LiteralCount(routes[2][1])
    /\ SegmentCount(routes[1][1]) > SegmentCount(routes[2][1])
    /\ CharCount(routes[1][1]) < CharCount(routes[2][1])
    /\ mresult = routes[2][2]

\* C3: a malformed filter (the empty filter, or "#" before the last segment)
\* is never stored in the subscription table.
C3_MalformedNeverStored ==
    /\ \A i \in 1..Len(routes) : ValidFilter(routes[i][1])
    /\ \A i \in 1..Len(route_qos) : ValidFilter(route_qos[i][1])

\* The subscribe calls a step made for filter f.
CallsFor(cs, f) == { i \in 1..Len(cs) : cs[i].op = "subscribe" /\ cs[i].filt = f }

\* C4: the replay of a successful connect event makes exactly one subscribe
\* call for every filter of the table, with the filter's stored qos, and none
\* for any other filter.
C4_ReplayExactlyOnce ==
    lastOp = "connect_replay" =>
      /\ \A i \in 1..Len(route_qos) :
           /\ Cardinality(CallsFor(calls, route_qos[i][1])) = 1
           /\ \A k \in CallsFor(calls, route_qos[i][1]) : calls[k].qos = route_qos[i][2]
      /\ \A k \in 1..Len(calls) :
           calls[k].op = "subscribe" /\ DictHas(route_qos, calls[k].filt)

\* C5: a failing subscribe call of the replay, by error code or by rejection,
\* is logged, every filter of the table still gets its subscribe call, and
\* the event goes on to the user connect callback.
C5_ReplaySurvivesFailure ==
    (lastOp = "connect_replay" /\ \E k \in 1..Len(calls) : calls[k].res # "ok") =>
      /\ \A k \in 1..Len(calls) :
           calls[k].res # "ok" =>
             \E n \in 1..Len(log) : log[n] = LogRec("error", "Failed to subscribe", calls[k].filt)
      /\ \A i \in 1..Len(route_qos) : CallsFor(calls, route_qos[i][1]) # {}
      /\ pcD = "conn_cb"
      /\ escaped = "none"

\* A step by which a stop() waiting in loop_stop(), or the delivery thread it
\* waits for, goes on.
StopProgress == StopFinish \/ ConnReplay \/ ConnCallback \/ MsgResolve \/ MsgCall

\* C6: a stop() that waits for the loop to halt is never stuck: it can
\* return, or the delivery thread it waits for can take its next step.
C6_StopNeverDeadlocks == pcC = "stop_join" => ENABLED StopProgress

\* In a running session one connect attempt and one loop start have been
\* issued since the session was last stopped, in a stopped one none.
C7_Counts ==
    /\ loop_running => epoch.connects = 1 /\ epoch.loop_starts = 1
    /\ ~loop_running => epoch.connects = 0 /\ epoch.loop_starts = 0

\* start() on a running session makes no transport call and changes nothing.
C7_SecondStart ==
    (loop_running /\ lastOp' = "start") =>
      /\ calls' = <<>>
      /\ UNCHANGED <<sessVars, threadVars, epoch>>

\* C7: over any sequence of start() calls with no stop() in between exactly
\* one connect attempt and one loop start are issued, and the second and later
\* calls change no state and make no transport call.
C7_StartIdempotent == []C7_Counts /\ [][C7_SecondStart]_vars

\* C7's case: start() has been called on a session that was already running.
C7_Witness ==
    /\ lastOp = "start"
    /\ calls = <<>>
    /\ loop_running
    /\ epoch.connects = 1

\* stop() on a stopped session makes no transport call and changes nothing.
C8_StopOnStopped ==
    (~loop_running /\ lastOp' = "stop") =>
      /\ calls' = <<>>
      /\ UNCHANGED <<sessVars, threadVars, epoch>>

\* stop() on a started session first halts the loop and, once the loop has
\* halted, issues one disconnect and leaves the session stopped.
C8_StopOnStarted ==
    /\ (loop_running /\ lastOp' = "stop_begin") =>
         calls' = <<PlainCall("loop_stop", "ok")>>
    /\ (loop_running /\ lastOp' = "stop") =>
         /\ calls' = <<PlainCall("loop_stop", "ok"), PlainCall("disconnect", "ok")>>
         /\ ~loop_running'
         /\ pcD' = "off"
         /\ lock' = "none"

\* start() on a stopped session, first or after a stop(), connects and starts
\* the loop.
C8_Restart ==
    (~loop_running /\ lastOp' = "start") =>
      /\ Len(calls') = 2
      /\ calls'[1].op = "connect"
      /\ calls'[2].op = "loop_start"
      /\ loop_running'

\* C8: stop() on a stopped session makes no transport call and changes
\* nothing; a stop() on a started session that returns has halted the loop,
\* then issued one disconnect, and left the session stopped, whether the
\* start()'s connect attempt failed or not; a later start() connects again.
C8_StopContract == [][C8_StopOnStopped /\ C8_StopOnStarted /\ C8_Restart]_vars

\* C8's case: a session whose start() failed to connect has been stopped.
C8_Witness ==
    /\ lastOp = "stop"
    /\ calls = <<PlainCall("loop_stop", "ok"), PlainCall("disconnect", "ok")>>
    /\ epoch.connect_failed
    /\ ~loop_running

\* C9 as stated: after start(), before any connect event has been delivered,
\* the session is not running yet.
C9_NotRunningBeforeConnect == lastOp = "start" => ~loop_running

\* Only start() sets the running flag and only stop() clears it: no connect,
\* disconnect or message event changes it.
C9_FlagSteps ==
    loop_running' # loop_running =>
      \/ lastOp' = "start" /\ loop_running'
      \/ lastOp' = "stop" /\ ~loop_running'

\* C9 amended: the session is stopped or running; start() leaves it running at
\* once, before any connect event is delivered, and only stop() makes it
\* stopped again.
C9_StoppedRunning == [](lastOp = "start" => loop_running) /\ [][C9_FlagSteps]_vars

\* C9's case: start() has just connected and started the loop, no event has
\* been delivered, and the session is running.
C9_Witness ==
    /\ lastOp = "start"
    /\ calls # <<>>
    /\ pcD = "idle"
    /\ loop_running

\* C10: a run calls its steps in list order, calls none after a step that did
\* not return success, and is reported successful exactly when every step of
\* the list returned success.
C10_ShortCircuit ==
    run.handler # "none" =>
      /\ Len(run.called) <= Len(run.steps)
      /\ Len(run.results) = Len(run.called)
      /\ \A i \in 1..Len(run.called) : run.called[i] = run.steps[i]
      /\ \A i \in 1..Len(run.called) : i < Len(run.called) => run.results[i] = "ok"
      /\ (run.result = "ok") <=>
           /\ Len(run.called) = Len(run.steps)
           /\ \A i \in 1..Len(run.results) : run.results[i] = "ok"
      /\ (run.result = "ok") <=>
           run.log = <<LogRec("debug", "all handlers successful", run.handler)>>

\* C10's case: of four steps the first succeeded and the second failed; the
\* third and fourth were not called and the run is a failure.
C10_Witness ==
    /\ Len(run.steps) = 4
    /\ run.called = <<"_create_data_directory", "_push_to_server">>
    /\ run.results = <<"ok", "fail">>
    /\ run.result = "failed"

\* One run of a pipeline: a step that was memoized before the run returns
\* success without running its body and the step after it is called; a
\* memoizing step that succeeds is memoized from then on.
C11_MemoStep ==
    run' # run =>
      /\ memo \subseteq memo'
      /\ \A i \in 1..Len(run'.called) :
           /\ run'.called[i] \in memo =>
                /\ run'.results[i] = "ok"
                /\ \A k \in 1..Len(run'.bodies) : run'.bodies[k] # run'.called[i]
                /\ i < Len(run'.steps) => Len(run'.called) > i
           /\ (run'.called[i] \in MemoSteps /\ run'.results[i] = "ok") =>
                run'.called[i] \in memo'

\* C11: once a memoizing step has succeeded in some run, every later run
\* treats it as an immediate success without executing its body again, and the
\* steps after it still run.
C11_Memoization == [][C11_MemoStep]_vars

\* C11's case: a run whose first step was memoized by an earlier run: its body
\* did not run, and the run went on to the body of a later step.
C11_Witness ==
    /\ Len(run.called) >= 2
    /\ run.called[1] \in MemoSteps
    /\ run.results[1] = "ok"
    /\ run.bodies # <<>>
    /\ \A k \in 1..Len(run.bodies) : run.bodies[k] # run.called[1]

\* The step of a failed run that returned failure: the last one called.
FirstFailingStep == run.called[Len(run.called)]

\* C12: the aggregate outcome logged for a failed run names the first failing
\* step.
C12_AggregateNamesFailingStep ==
    run.result = "failed" =>
      \E n \in 1..Len(run.log) : run.log[n][3] = FirstFailingStep

\* C13: no step of a run raises, and every call of handle() ends by logging
\* the aggregate outcome of the run, success or failure.
C13_StepsNeverRaise ==
    run.handler # "none" =>
      /\ \A i \in 1..Len(run.results) : run.results[i] \in {"ok", "fail"}
      /\ run.result \in {"ok", "failed"}
      /\ run.log # <<>>

\* The steps in which an event's entry point calls user-supplied code.
UserCodeSteps == {"message_call", "connect_callback", "disconnect"}

\* A step that calls user code, whether the callable returns or raises: no
\* exception leaves the entry point, the session state and the table are as
\* before, and the delivery thread is ready for the next event.
C14_UserCodeStep ==
    lastOp' \in UserCodeSteps =>
      /\ escaped' = "none"
      /\ UNCHANGED <<routes, route_qos, loop_running, lock>>
      /\ pcD' = "idle"
      /\ evt' \in {NoEvt, evt}
      /\ Len(invoked') <= 1

\* After such a step the transport can deliver the next message as soon as
\* the calling thread is not inside stop().
C14_NextMessage ==
    (lastOp \in UserCodeSteps /\ pcC = "idle") =>
      ENABLED (\E t \in SessionTopics : MsgBegin(t))

\* C14: an exception raised by a message handler, the default handler, the
\* connect callback or the disconnect callback is caught and logged in the
\* event's entry point: it does not reach the delivery thread, changes
\* neither the session state nor the table, and the next message is delivered.
C14_ExceptionIsolation == [][C14_UserCodeStep]_vars /\ []C14_NextMessage

\* C14's case: the handler of sensors/temp raised; the exception was logged,
\* nothing escaped, and the delivery thread of the running session is idle.
C14_Witness ==
    /\ lastOp = "message_call"
    /\ invoked = <<Invocation("H2", T_temp)>>
    /\ log = <<LogRec("error", "Error in message handler for topic", T_temp)>>
    /\ escaped = "none"
    /\ pcD = "idle"
    /\ loop_running

\* The matching entries that outscore every other matching entry.
MostSpecific(rts, t) ==
    { i \in Matching(rts, t) :
        \A j \in Matching(rts, t) \ {i} : ScoreGt(Score(rts[i][1]), Score(rts[j][1])) }

\* _match_handler returns None when no filter matches the topic and when the
\* most specific matching filter was subscribed without a handler, whatever
\* handlers the less specific matching filters have.
C15_ResolvedNone ==
    lastOp = "message_resolve" =>
      /\ Matching(routes, evt.topic) = {} => evt.handler = None
      /\ \A i \in MostSpecific(routes, evt.topic) :
           routes[i][2] = None => evt.handler = None

\* When None was resolved, the default handler is invoked if there is one;
\* otherwise nothing is invoked, nothing is logged and nothing is raised.
C15_Fallback ==
    (pcD = "msg_call" /\ pcD' = "idle" /\ evt.handler = None) =>
      /\ invoked' = IF user_on_message # None
                    THEN <<Invocation(user_on_message, evt.topic)>> ELSE <<>>
      /\ escaped' = "none"
      /\ user_on_message = None => log' = <<>>

\* C15: if no filter matches the topic, or the most specific matching filter
\* has no handler, the default message handler is invoked if one is
\* registered; if none is registered nothing is invoked and no error is raised.
C15_DefaultFallback == []C15_ResolvedNone /\ [][C15_Fallback]_vars

\* C15's case: sensors/temp is subscribed without a handler and sensors/# with
\* H1; a message on sensors/temp went to the default handler.
C15_Witness ==
    /\ lastOp = "message_call"
    /\ DictGet(routes, F_all) = "H1"
    /\ DictHas(routes, F_temp)
    /\ DictGet(routes, F_temp) = None
    /\ invoked = <<Invocation(user_on_message, T_temp)>>
    /\ user_on_message # None

\* A transport call that did not succeed: an error code, or a rejection.
Failed(c) == c.res # "ok"

\* subscribe() on a running session has made exactly one transport subscribe,
\* for a filter that is in the table, at the filter's stored qos; if the call
\* failed the failure is logged, and the entry is in the table all the same.
C16_LiveSubscribe ==
    (lastOp = "subscribe" /\ loop_running) =>
      /\ Len(calls) = 1
      /\ calls[1].op = "subscribe"
      /\ DictHas(routes, calls[1].filt)
      /\ DictHas(route_qos, calls[1].filt)
      /\ calls[1].qos = DictGet(route_qos, calls[1].filt)
      /\ Failed(calls[1]) =>
           log = <<LogRec("error", "Failed to subscribe", calls[1].filt)>>

\* The replay of a successful connect event includes every filter that is in
\* the table, those whose live subscribe failed among them.
C16_ReplayIncludesAll ==
    lastOp = "connect_replay" =>
      \A i \in 1..Len(routes) : CallsFor(calls, routes[i][1]) # {}

\* C16: subscribe() on a running session inserts the entry and issues exactly
\* one live subscribe at the stored qos; a failure of that call is logged, the
\* entry stays, and the filter is in the replay of the next successful connect.
C16_LiveSubscribeRetried == C16_LiveSubscribe /\ C16_ReplayIncludesAll

\* The table holds well-formed filters only.
AllValid == \A i \in 1..Len(routes) : ValidFilter(routes[i][1])

\* C16 on tables of well-formed filters.
C16_OnValidTables == AllValid => C16_LiveSubscribeRetried

\* subscribe() on a session that is not running puts its entry in the table
\* at once and makes no transport call.
C17_StoppedSubscribe ==
    (~loop_running /\ lastOp' = "subscribe") =>
      /\ calls' = <<>>
      /\ escaped' = "none"
      /\ \E f \in SessionFilters, a \in SubscribeArgs :
           /\ DictHas(routes', f)
           /\ DictGet(routes', f) = a[1]
           /\ DictHas(route_qos', f)
           /\ \A g \in DictKeySet(routes) : DictHas(routes', g)

\* The filters a successful connect event's replay has subscribed at the
\* transport.
SubscribedByReplay ==
    { calls[k].filt : k \in { n \in 1..Len(calls) : calls[n].op = "subscribe" } }

\* After the replay of a successful connect event the filters subscribed since
\* the connect include every filter of the table.
C17_ReplayCoversTable ==
    lastOp = "connect_replay" => DictKeySet(routes) \subseteq SubscribedByReplay

\* C17: subscribe() on a session that is not running updates the table at once
\* and makes no transport call; every filter so registered and still in the
\* table is subscribed by the replay of the next successful connect event.
C17_DeferredSubscribe == [][C17_StoppedSubscribe]_vars /\ []C17_ReplayCoversTable

\* C17 on tables of well-formed filters.
C17_OnValidTables ==
    [][C17_StoppedSubscribe]_vars /\ [](AllValid => C17_ReplayCoversTable)

\* A disconnect event changes neither the session state nor the table, nor
\* what the two threads are doing.
C18_DisconnectFrame ==
    lastOp' = "disconnect" =>
      UNCHANGED <<routes, route_qos, loop_running, lock, pcC, pcD>>

\* A running session becomes stopped by stop() only.
C18_OnlyStopStops ==
    (loop_running /\ ~loop_running') => lastOp' = "stop"

\* C18: a disconnect event, clean or unexpected, leaves the session state and
\* the subscription table unchanged; a running session stays running through
\* disconnect and reconnect events and only stop() makes it stopped.
C18_DisconnectKeepsRunning == [][C18_DisconnectFrame /\ C18_OnlyStopStops]_vars

\* C18's case: a running session with a subscription has seen an unexpected
\* disconnect and is still running, its table as it was.
C18_Witness ==
    /\ lastOp = "disconnect"
    /\ log[1] = LogRec("warning", "MQTT unexpectedly disconnected", NoFilter)
    /\ loop_running
    /\ routes # <<>>

\* No two items of a dict have the same key.
UniqueKeys(d) == \A i \in 1..Len(d), j \in 1..Len(d) : d[i][1] = d[j][1] => i = j

\* The table holds one handler and one qos per filter, for the same filters.
C19_OneEntryPerFilter ==
    /\ UniqueKeys(routes)
    /\ UniqueKeys(route_qos)
    /\ DictKeys(routes) = DictKeys(route_qos)

\* The qos subscribe stores for its qos argument: the client default when omitted.
StoredQos(qarg) == IF qarg = <<>> THEN DefaultQos ELSE qarg[1]

\* subscribe() leaves the table with the filter's new handler and qos in one
\* entry, at the place the filter had or, for a new filter, after the last
\* entry, and the other entries as they were.
C19_SubscribeReplaces ==
    lastOp' = "subscribe" =>
      /\ Len(route_qos') = Len(routes')
      /\ \E i \in 1..Len(routes') :
           LET f == routes'[i][1]
           IN  /\ f \in SessionFilters
               /\ route_qos'[i][1] = f
               /\ \E a \in SubscribeArgs :
                    /\ routes'[i][2] = a[1]
                    /\ route_qos'[i][2] = StoredQos(a[2])
               /\ IF i <= Len(routes)
                  THEN routes[i][1] = f /\ Len(routes') = Len(routes)
                  ELSE /\ Len(routes') = Len(routes) + 1
                       /\ \A j \in 1..Len(routes) : routes[j][1] # f
               /\ \A j \in 1..Len(routes) :
                    j # i => (routes'[j] = routes[j] /\ route_qos'[j] = route_qos[j])

\* A message is routed by, and a replay subscribes at, the values the table
\* holds now: the resolved handler is an entry's current handler and each
\* replayed call carries its filter's current qos.
C19_CurrentValuesUsed ==
    /\ (lastOp = "message_resolve" /\ evt.handler # None) =>
         \E i \in Matching(routes, evt.topic) : routes[i][2] = evt.handler
    /\ lastOp = "connect_replay" =>
         \A k \in 1..Len(calls) :
           /\ DictHas(route_qos, calls[k].filt)
           /\ calls[k].qos = DictGet(route_qos, calls[k].filt)

FailureLevels == {"warning", "error"}

\* unsubscribe(f): f is not in the table afterwards; if it was not there
\* before, nothing changed and no transport call was made; if it was and the
\* session is running, one transport unsubscribe for f was made, and a failure
\* of that call was logged as a failure and did not reach the caller.
C20_UnsubscribeStep ==
    lastOp' = "unsubscribe" =>
      \E f \in SessionFilters :
        /\ ~DictHas(routes', f)
        /\ ~DictHas(route_qos', f)
        /\ ~DictHas(routes, f) =>
             /\ UNCHANGED <<routes, route_qos>>
             /\ calls' = <<>>
        /\ (DictHas(routes, f) /\ ~loop_running) => calls' = <<>>
        /\ (DictHas(routes, f) /\ loop_running) =>
             /\ Len(calls') = 1
             /\ calls'[1].op = "unsubscribe"
             /\ calls'[1].filt = f
             /\ escaped' = "none"
             /\ Failed(calls'[1]) =>
                  \E n \in 1..Len(log') :
                    log'[n][1] \in FailureLevels /\ log'[n][3] = f

\* C20: unsubscribe(f) deletes f's entry; on a running session it issues one
\* live unsubscribe for f, whose failure is logged as a failure and not raised,
\* the entry staying deleted; for a filter not in the table it changes nothing.
C20_UnsubscribeBestEffort == [][C20_UnsubscribeStep]_vars

\* C20 on tables of well-formed filters.
C20_OnValidTables == [][AllValid => C20_UnsubscribeStep]_vars

\* The transport unsubscribe calls of a list of calls that name filter f.
UnsubscribesFor(cs, f) ==
    { k \in 1..Len(cs) : cs[k].op = "unsubscribe" /\ cs[k].filt = f }

\* clear_subscriptions() leaves both dicts empty; on a running session it has
\* made one transport unsubscribe for each filter that was in the table, and
\* no other call; on a stopped session it has made none.
C21_ClearStep ==
    lastOp' = "clear" =>
      /\ routes' = <<>>
      /\ route_qos' = <<>>
      /\ loop_running =>
           /\ \A f \in DictKeySet(routes) : Cardinality(UnsubscribesFor(calls', f)) = 1
           /\ Len(calls') = Len(routes)
      /\ ~loop_running => calls' = <<>>

\* C21: clear_subscriptions() always leaves the table empty; on a running
\* session it issues one transport unsubscribe per filter of the table, and a
\* failing unsubscribe for one filter prevents neither the others nor the
\* emptying of the table.
C21_ClearEmptiesTable == [][C21_ClearStep]_vars

\* C21 on tables of well-formed filters.
C21_OnValidTables == [][AllValid => C21_ClearStep]_vars

\* publish() has made exactly one transport call, a publish of the caller's
\* topic and payload, with the caller's qos or the client default when
\* omitted, and the caller's retain or false when omitted; it has changed
\* neither the session state nor the table nor what either thread is doing.
C22_PublishStep ==
    lastOp' = "publish" =>
      /\ Len(calls') = 1
      /\ calls'[1].op = "publish"
      /\ \E a \in PublishArgs :
           /\ calls'[1].filt = a[1]
           /\ calls'[1].payload = a[2]
           /\ calls'[1].qos = (IF a[3] = <<>> THEN DefaultQos ELSE a[3][1])
           /\ calls'[1].retain = (IF a[4] = <<>> THEN FALSE ELSE a[4][1])
      /\ escaped' = "none"
      /\ UNCHANGED <<sessVars, threadVars, epoch>>

\* publish() can be called in every session state in which the calling
\* thread is not inside another call.
C22_AnyState == pcC = "idle" => ENABLED (\E a \in PublishArgs : Publish(a[1], a[2], a[3], a[4]))

\* C22: publish makes exactly one transport publish call with the caller's
\* topic and payload, qos the client default when omitted and the caller's
\* value otherwise (0 stays 0), retain false when omitted, in every session
\* state, without retry, and changes neither the session state nor the table.
C22_PublishPassThrough == [][C22_PublishStep]_vars /\ []C22_AnyState

\* C22's case: on a stopped session with a subscription, a publish with an
\* explicit qos 0 failed at the transport; it was passed with qos 0, once.
C22_Witness ==
    /\ lastOp = "publish"
    /\ ~loop_running
    /\ routes # <<>>
    /\ calls = <<PublishCall(T_humidity, "p2", 0, TRUE, "err")>>

\* One filter segment against one topic segment: "+" takes any segment, a
\* literal takes the equal segment.
SegmentOk(fs, ts) == fs = "+" \/ (fs # "#" /\ fs = ts)

\* The segment-by-segment rule: a filter ending in "#" matches the topics whose
\* leading segments agree with the segments before the "#"; any other filter
\* matches the topics of its own length that agree with it in every segment.
RuleMatch(f, t) ==
    IF f[Len(f)] = "#"
    THEN /\ Len(t) >= Len(f) - 1
         /\ \A i \in 1..(Len(f) - 1) : SegmentOk(f[i], t[i])
    ELSE /\ Len(t) = Len(f)
         /\ \A i \in 1..Len(f) : SegmentOk(f[i], t[i])

\* The rule with the transport's exception: a topic whose first segment
\* starts with "$" is matched by no filter whose first segment is a wildcard.
RuleMatchExceptSys(f, t) ==
    /\ RuleMatch(f, t)
    /\ ~(t[1] = "$SYS" /\ f[1] \in {"+", "#"})

\* A handler was resolved for the topic exactly when a filter of the table
\* matches it by rule `rule`; with one filter in the table this is the match
\* decision for that filter and the topic.
DecisionAgrees(rule(_, _)) ==
    mtopic # <<>> =>
      (mresult # None <=> \E i \in 1..Len(routes) : rule(routes[i][1], mtopic))

MidUpdate == pcC \in {"subscribe", "unsubscribe", "clear"}

\* The lock is held by the calling thread exactly while it is inside subscribe,
\* unsubscribe or clear_subscriptions (or inside stop).
C24_LockHeld == (lock = "caller") <=> (MidUpdate \/ pcC = "stop_join")

\* Resolution and replay have read a table no update was in the middle of:
\* the calling thread was outside its table operations, and every filter had
\* both its handler entry and its qos entry.
C24_WholeTableSeen ==
    lastOp \in {"message_resolve", "connect_replay"} =>
      /\ ~MidUpdate
      /\ lock = "none"
      /\ pend = NoPend
      /\ DictKeys(routes) = DictKeys(route_qos)

\* The table is changed by the calling thread's operations only, and the
\* delivery thread takes no step of its own while it is changed.
C24_TableSteps ==
    (routes' # routes \/ route_qos' # route_qos) =>
      /\ lastOp' \in {"subscribe_store", "subscribe", "unsubscribe_delete",
                      "unsubscribe", "clear_routes", "clear"}
      /\ pcD' = pcD
      /\ evt' = evt

\* C24: subscribe, unsubscribe, clear_subscriptions, connect replay and
\* handler resolution exclude one another on one lock: resolution and replay
\* never see a table in the middle of an update (for each filter both entries
\* or neither) and replay never iterates a table that is being changed.
C24_TableLockExclusion ==
    []C24_LockHeld /\ []C24_WholeTableSeen /\ [][C24_TableSteps]_vars

\* C24's case: the delivery thread has entered _match_handler and waits for
\* the lock while subscribe() holds it between its two stores, the new filter
\* having a handler entry and no qos entry yet.
C24_Witness ==
    /\ pcD = "msg"
    /\ pcC = "subscribe"
    /\ lock = "caller"
    /\ DictHas(routes, pend.filt)
    /\ ~DictHas(route_qos, pend.filt)

\* The steps of a PushToServerHandler run under a configuration, in order.
ExpectedPushSteps(cfg) ==
    IF cfg.hoist /\ cfg.centralize_logs
    THEN <<"_create_data_directory", "_aggregate_hoist_data", "_push_to_server",
           "_create_log_directory", "_copy_logs">>
    ELSE IF cfg.hoist
    THEN <<"_create_data_directory", "_aggregate_hoist_data", "_push_to_server">>
    ELSE IF cfg.centralize_logs
    THEN <<"_create_data_directory", "_push_to_server",
           "_create_log_directory", "_copy_logs">>
    ELSE <<"_create_data_directory", "_push_to_server">>

\* A run of PushToServerHandler.handle under a configuration has the step
\* list of the configuration current at the call.
C25_StepsFromCurrentConfig ==
    (run' # run /\ run'.handler = "PushToServerHandler" /\ config.set) =>
      run'.steps = ExpectedPushSteps(config)

\* In a run, push-to-server was called only after the data-directory step
\* returned success, and copy-logs only as the last step of the list after
\* every earlier step of the list returned success.
C25_Order ==
    run.handler = "PushToServerHandler" =>
      \A i \in 1..Len(run.called) :
        /\ run.called[i] = "_push_to_server" =>
             \E j \in 1..(i - 1) :
               run.called[j] = "_create_data_directory" /\ run.results[j] = "ok"
        /\ run.called[i] = "_copy_logs" =>
             /\ i = Len(run.steps)
             /\ \A j \in 1..(i - 1) :
                  run.called[j] = run.steps[j] /\ run.results[j] = "ok"

TiedScores ==
    /\ LiteralCount(routes[1][1]) = LiteralCount(routes[2][1])
    /\ CharCount(routes[1][1]) = CharCount(routes[2][1])

\* C26: when two different filters of identical score both match the topic,
\* the handler chosen is that of the filter inserted first (H1 in the tables of
\* the matcher specification), also after either filter has been subscribed
\* again, which leaves the order of the table as it was.
C26_FirstInsertedWinsTie ==
    /\ (TwoMatch /\ TiedScores) => mresult = "H1"
    /\ Len(routes) = 2 => (routes[1][2] = "H1" /\ routes[2][2] = "H2")

\* C26's case: two filters of equal score match the topic, one of them was
\* subscribed again before the topic was resolved, and the handler of the
\* first one was chosen.
C26_Witness ==
    /\ TwoMatch
    /\ TiedScores
    /\ lastOp = "subscribe"
    /\ mresult = "H1"

\* C27: in every state of the session the handler map and the qos map have the
\* same set of filters: every routed filter has a stored qos and every filter
\* that would be replayed has a route entry.
C27_SameKeySets == DictKeySet(routes) = DictKeySet(route_qos)

\* C27's case: an unsubscribe whose transport call raised, after both entries
\* of the filter were deleted, in a table that still holds another filter.
C27_Witness ==
    /\ lastOp = "unsubscribe"
    /\ escaped = "caller"
    /\ routes # <<>>
    /\ ~DictHas(routes, calls[1].filt)
    /\ ~DictHas(route_qos, calls[1].filt)

\* One step of the pipeline, as C28 reads it: no step leaves the memoized set,
\* whatever the operation (set_config included); a step enters it only in a run
\* that executed its body with success; a memoizing step that failed in a run
\* is not memoized by it; and a run executes the body of every step it calls
\* that is not memoized.
C28_MemoStep ==
    /\ memo \subseteq memo'
    /\ \A s \in memo' \ memo :
         /\ run' # run
         /\ \E i \in 1..Len(run'.called) :
              run'.called[i] = s /\ run'.results[i] = "ok"
         /\ \E k \in 1..Len(run'.bodies) : run'.bodies[k] = s
    /\ run' # run =>
         \A i \in 1..Len(run'.called) :
           /\ (run'.called[i] \in MemoSteps /\ run'.results[i] # "ok") =>
                run'.called[i] \notin memo'
           /\ run'.called[i] \notin memo =>
                \E k \in 1..Len(run'.bodies) : run'.bodies[k] = run'.called[i]

\* C28: a step becomes memoized only by a successful execution of its body, a
\* failed memoizing step stays un-memoized and its body runs again in the next
\* run, and a memoized step is never un-memoized, not even by set_config.
C28_MemoizedOnlyBySuccess == [][C28_MemoStep]_vars

\* C28's case: a run in which the data-directory step, memoized earlier, was
\* skipped and the log-directory step executed its body, failed and stayed
\* un-memoized.
C28_Witness ==
    /\ "_create_data_directory" \in memo
    /\ run.bodies # <<>>
    /\ run.bodies[1] # "_create_data_directory"
    /\ run.called[Len(run.called)] = "_create_log_directory"
    /\ run.results[Len(run.results)] = "fail"
    /\ "_create_log_directory" \notin memo

\* The step in which _on_connect is entered with a failure reason code.
C29_FailedConnect ==
    /\ lastOp' = "connect_begin"
    /\ pcD = "idle"
    /\ pcD' # "idle"
    /\ log' = <<LogRec("warning", "MQTT connect returned non-zero result", NoFilter)>>

\* A failed connect makes no transport call and changes neither the table nor
\* the session state, and goes on to the user connect callback.
C29_FailedConnectStep ==
    (pcD = "idle" /\ lastOp' = "connect_begin" /\ log'[1][1] = "warning") =>
      /\ C29_FailedConnect
      /\ calls' = <<>>
      /\ UNCHANGED sessVars
      /\ pcD' = "conn_cb"

\* The delivery thread leaves the point before the user connect callback, which
\* a failed connect and a replayed one reach alike, only through the callback:
\* no transport call, table and session state unchanged, the callback invoked
\* when one is set.
C29_CallbackStep ==
    (pcD = "conn_cb" /\ pcD' # pcD) =>
      /\ lastOp' = "connect_callback"
      /\ pcD' = "idle"
      /\ calls' = <<>>
      /\ UNCHANGED sessVars
      /\ invoked' = IF user_on_connect # None
                    THEN <<Invocation(user_on_connect, NoFilter)>> ELSE <<>>

\* C29: a connect event with a failure reason code issues no transport
\* subscribe call and leaves the table and the session state unchanged, and the
\* user connect callback is still invoked for it, as for a successful connect.
C29_FailedConnectStillCallsBack ==
    [][C29_FailedConnectStep /\ C29_CallbackStep]_vars

\* C29's case: a running session with a filter in its table and a user connect
\* callback has just had a connect refused: no call was made and the delivery
\* thread stands before the user callback.
C29_Witness ==
    /\ lastOp = "connect_begin"
    /\ log = <<LogRec("warning", "MQTT connect returned non-zero result", NoFilter)>>
    /\ pcD = "conn_cb"
    /\ calls = <<>>
    /\ loop_running
    /\ routes # <<>>
    /\ user_on_connect # None

\* A handler is resolved and not yet returned: the delivery thread is between
\* _match_handler and the end of the handler's call.
HandlerPending == pcD = "msg_call"

\* While a handler is pending the delivery thread does not own the lock, so
\* the calling thread's table operation goes on: a call of subscribe,
\* unsubscribe or clear_subscriptions can take the lock, and one that has
\* taken it can finish.
C30_CallerNotBlocked ==
    HandlerPending =>
      /\ lock # "delivery"
      /\ pcC = "idle" =>
           /\ ENABLED (\E f \in SessionFilters, a \in SubscribeArgs :
                         SubscribeStore(f, a[1], a[2]))
           /\ ENABLED (\E f \in SessionFilters : UnsubscribeDelete(f))
           /\ ENABLED ClearRoutes
      /\ pcC = "subscribe" => ENABLED SubscribeFinish
      /\ pcC = "unsubscribe" => ENABLED UnsubscribeFinish
      /\ pcC = "clear" => ENABLED ClearQos

\* The handler is resolved from the table with the lock free, stays the
\* resolved one whatever the calling thread does to the table meanwhile, and is
\* the one invoked (the default handler standing in when none was resolved).
C30_ResolvedInvoked ==
    /\ (pcD = "msg" /\ pcD' = "msg_call") =>
         /\ lock = "none"
         /\ evt'.handler = match_handler(routes, evt.topic)
    /\ (HandlerPending /\ pcD' = pcD) => evt' = evt
    /\ (HandlerPending /\ pcD' # pcD) =>
         /\ lastOp' = "message_call"
         /\ UNCHANGED <<routes, route_qos, lock>>
         /\ invoked' = IF HandlerToCall(evt.handler, user_on_message) # None
                       THEN <<Invocation(HandlerToCall(evt.handler, user_on_message),
                                         evt.topic)>>
                       ELSE <<>>

\* C30: the resolved handler is invoked after the table lock has been
\* released: while it is pending, subscribe, unsubscribe and
\* clear_subscriptions of the other thread complete without waiting for it, and
\* the handler invoked is the one resolved under the lock even if its filter
\* was unsubscribed or replaced between resolution and invocation.
C30_HandlerOutsideLock == []C30_CallerNotBlocked /\ [][C30_ResolvedInvoked]_vars

\* C30's case: a handler resolved from the table was invoked after the calling
\* thread had completed a table operation that took it out of the table: no
\* entry of the table holds it any more.
C30_Witness ==
    /\ lastOp = "message_call"
    /\ pcC = "idle"
    /\ invoked # <<>>
    /\ invoked[1].fn \in Handlers
    /\ \A i \in 1..Len(routes) : routes[i][2] # invoked[1].fn
    /\ match_handler(routes, invoked[1].topic) # invoked[1].fn

====
